---- MODULE Spec2Model ----
(***************************************************************************)
(* A model of the biocomp Parsl helpers:                                   *)
(*   - wait_for_all        (workflow.py): the polling wait on futures;     *)
(*   - workflow_config     (workflow.py): the four-executor configuration; *)
(*   - PhylipMissingData   (appsexception.py): the domain error.           *)
(* Each piece has its own specification (SpecWait / FairWait, SpecConfig,  *)
(* SpecErr); the variables of the other pieces stay at their initial value.*)
(***************************************************************************)
EXTENDS Integers, Sequences, FiniteSets, TLC

VARIABLES
    \* ---- wait_for_all
    list_of_futures,  \* the argument: a sequence of future ids
    fut,              \* fut[h]: "pending" | "ok" | "failed"   (the futures' own state)
    pc,               \* position of the calling thread inside wait_for_all
    not_done,         \* the local flag of the poll loop
    idx,              \* position of the running for loop in list_of_futures
    cycles,           \* poll cycles started                  (history)
    sleeps,           \* time.sleep calls completed           (history)
    checked,          \* positions whose done() was called in the current cycle (history)
    result_calls,     \* positions on which result() was called, in call order (history)
    raised,           \* exceptions that reached the caller   (history)
    exc,              \* the exception that reached the caller, or NoValue
    retval,           \* the value returned, or NoValue
    \* ---- workflow_config
    args,             \* the call's arguments: name, partition, nodes, cores_per_node,
                      \* walltime, interval, monitor
    env_file,         \* content of the file 'parsl.env', or NoFile
    pcC,              \* position inside workflow_config
    loggers,          \* the process-wide loggers set so far, in order
    env_str,          \* the local env_str
    mon_hub,          \* the local mon_hub, or NoValue before line 74
    executors,        \* the HighThroughputExecutor objects constructed so far
    config,           \* the Config returned, or NoValue
    errC,             \* the exception workflow_config raised, or NoValue
    \* ---- PhylipMissingData
    ctor,             \* the constructor call: input_dir and message (or Omitted)
    pcE,              \* "new" | "built" | "shown"
    error,            \* the exception object, or NoValue
    text              \* str(error), or NoValue

waitVars == <<list_of_futures, fut, pc, not_done, idx, cycles, sleeps, checked,
              result_calls, raised, exc, retval>>

cfgVars == <<args, env_file, pcC, loggers, env_str, mon_hub, executors, config, errC>>

errVars == <<ctor, pcE, error, text>>

vars == <<waitVars, cfgVars, errVars>>

\* ------------------------------------------------------------------ bounds

MaxFutures == 3   \* longest list_of_futures
MaxHandles == 2   \* distinct futures
MaxCycles  == 3   \* poll cycles that may start while some future is pending
MaxInterval == 2  \* largest monitoring interval besides the default
MaxStrLen  == 2   \* longest input_dir and message

\* ------------------------------------------------------------------ values

NoValue == [type |-> "unset"]       \* a variable not yet assigned
None    == [type |-> "NoneType"]    \* Python's None

Handles == 1..MaxHandles

RECURSIVE SeqsUpTo(_, _)
SeqsUpTo(S, n) ==
    IF n = 0 THEN {<<>>}
    ELSE LET shorter == SeqsUpTo(S, n - 1)
         IN  shorter \cup {Append(s, x) : s \in {t \in shorter : Len(t) = n - 1}, x \in S}

\* ------------------------------------------------------------------ Python values

\* The values cores_per_node may hold: an int, a str, or a float w.t (w >= 0).
PyInt(n)      == [type |-> "int", n |-> n]
PyStr(s)      == [type |-> "str", s |-> s]
PyFloat(w, t) == [type |-> "float", whole |-> w, tenths |-> t]

Digits == "0123456789"

DigitChar(d) == SubSeq(Digits, d + 1, d + 1)

IsDigit(c) == \E d \in 0..9 : DigitChar(d) = c

DigitVal(c) == CHOOSE d \in 0..9 : DigitChar(d) = c

\* The decimal text of n >= 0.
RECURSIVE IntToStr(_)
IntToStr(n) ==
    IF n < 10 THEN DigitChar(n) ELSE IntToStr(n \div 10) \o DigitChar(n % 10)

\* s without its leading and trailing blanks.
RECURSIVE Strip(_)
Strip(s) ==
    IF s = "" THEN s
    ELSE IF Head(s) = " " THEN Strip(SubSeq(s, 2, Len(s)))
    ELSE IF SubSeq(s, Len(s), Len(s)) = " " THEN Strip(SubSeq(s, 1, Len(s) - 1))
    ELSE s

RECURSIVE ParseDigits(_)
ParseDigits(s) ==
    IF Len(s) = 1 THEN DigitVal(s)
    ELSE 10 * ParseDigits(SubSeq(s, 1, Len(s) - 1)) + DigitVal(SubSeq(s, Len(s), Len(s)))

\* Whether int(v) returns: always for an int or a float, and for a str only when
\* it is unsigned decimal digits, blanks around them allowed (else ValueError).
IntAccepts(v) ==
    \/ v.type \in {"int", "float"}
    \/ /\ v.type = "str"
       /\ Strip(v.s) # ""
       /\ \A i \in 1..Len(Strip(v.s)) : IsDigit(SubSeq(Strip(v.s), i, i))

\* int(v): the int itself, the float truncated, the str parsed.
int(v) ==
    CASE v.type = "int"   -> v.n
      [] v.type = "float" -> v.whole
      [] v.type = "str"   -> ParseDigits(Strip(v.s))

\* The text an f-string gives for {v}.
format(v) ==
    CASE v.type = "int"   -> IntToStr(v.n)
      [] v.type = "float" -> IntToStr(v.whole) \o "." \o DigitChar(v.tenths)
      [] v.type = "str"   -> v.s

\* Python's ==  between an int and one of these values.
IntEquals(n, v) ==
    CASE v.type = "int"   -> n = v.n
      [] v.type = "float" -> n = v.whole /\ v.tenths = 0
      [] v.type = "str"   -> FALSE

\* All strings over the characters of S of length at most n.
RECURSIVE StringsUpTo(_, _)
StringsUpTo(S, n) ==
    IF n = 0 THEN {""}
    ELSE LET shorter == StringsUpTo(S, n - 1)
         IN  shorter \cup {s \o c : s \in {t \in shorter : Len(t) = n - 1}, c \in S}

\* ------------------------------------------------------------------ states before a call

IdleWait ==
    /\ list_of_futures = <<>>
    /\ fut = [h \in Handles |-> "pending"]
    /\ pc = "idle"
    /\ not_done = TRUE
    /\ idx = 1
    /\ cycles = 0
    /\ sleeps = 0
    /\ checked = {}
    /\ result_calls = <<>>
    /\ raised = 0
    /\ exc = NoValue
    /\ retval = NoValue

IdleConfig ==
    /\ args = NoValue
    /\ env_file = NoValue
    /\ pcC = "idle"
    /\ loggers = <<>>
    /\ env_str = ""
    /\ mon_hub = NoValue
    /\ executors = <<>>
    /\ config = NoValue
    /\ errC = NoValue

IdleErr ==
    /\ ctor = NoValue
    /\ pcE = "idle"
    /\ error = NoValue
    /\ text = NoValue

\* ------------------------------------------------------------------ futures

\* Future.done(): true once the future holds a result or an exception.
done(h) == fut[h] # "pending"

\* The exception a failed future stores and result() re-raises.
StoredException(h) == [type |-> "Exception", future |-> h]

AllDone == \A k \in 1..Len(list_of_futures) : done(list_of_futures[k])

\* A future completes, with a result or with an exception; it never goes back.
Complete(h) ==
    /\ fut[h] = "pending"
    /\ \E outcome \in {"ok", "failed"} : fut' = [fut EXCEPT ![h] = outcome]
    /\ UNCHANGED <<list_of_futures, pc, not_done, idx, cycles, sleeps, checked,
                   result_calls, raised, exc, retval>>
    /\ UNCHANGED <<cfgVars, errVars>>

\* ------------------------------------------------------------------ wait_for_all

InitWait ==
    /\ list_of_futures \in SeqsUpTo(Handles, MaxFutures)
    /\ fut \in [Handles -> {"pending", "ok", "failed"}]
    /\ pc = "while"
    /\ not_done = TRUE
    /\ idx = 1
    /\ cycles = 0
    /\ sleeps = 0
    /\ checked = {}
    /\ result_calls = <<>>
    /\ raised = 0
    /\ exc = NoValue
    /\ retval = NoValue
    /\ IdleConfig
    /\ IdleErr

\* History counters stop one above MaxCycles, a value the loop reaches only in
\* the cycle that finds every future done.
Count(c) == IF c <= MaxCycles THEN c + 1 ELSE c

\* WhileTest without its `not_done = False`.
WhileTestForgetsReset ==
    /\ pc = "while"
    /\ IF not_done
       THEN /\ cycles < MaxCycles \/ AllDone
            /\ pc' = "for"
            /\ idx' = 1
            /\ cycles' = Count(cycles)
            /\ checked' = {}
            /\ UNCHANGED not_done
       ELSE /\ pc' = "result"
            /\ idx' = 1
            /\ UNCHANGED <<not_done, cycles, checked>>
    /\ UNCHANGED <<list_of_futures, fut, sleeps, result_calls, raised, exc, retval>>
    /\ UNCHANGED <<cfgVars, errVars>>

\* `while not_done:` followed by `not_done = False` and the start of the for loop,
\* or the exit to the result pass.
WhileTest ==
    /\ pc = "while"
    /\ IF not_done
       THEN /\ cycles < MaxCycles \/ AllDone
            /\ pc' = "for"
            /\ not_done' = FALSE
            /\ idx' = 1
            /\ cycles' = Count(cycles)
            /\ checked' = {}
       ELSE /\ pc' = "result"
            /\ idx' = 1
            /\ UNCHANGED <<not_done, cycles, checked>>
    /\ UNCHANGED <<list_of_futures, fut, sleeps, result_calls, raised, exc, retval>>
    /\ UNCHANGED <<cfgVars, errVars>>

\* ForCheck written as `for r in list_of_futures: not_done = not r.done()`.
ForCheckLastWins ==
    /\ pc = "for"
    /\ IF idx > Len(list_of_futures)
       THEN /\ pc' = "sleep"
            /\ UNCHANGED <<not_done, idx, checked>>
       ELSE /\ checked' = checked \cup {idx}
            /\ not_done' = ~done(list_of_futures[idx])
            /\ idx' = idx + 1
            /\ UNCHANGED pc
    /\ UNCHANGED <<list_of_futures, fut, cycles, sleeps, result_calls, raised, exc, retval>>
    /\ UNCHANGED <<cfgVars, errVars>>

\* ForCheck without its `break`.
ForCheckNoBreak ==
    /\ pc = "for"
    /\ IF idx > Len(list_of_futures)
       THEN /\ pc' = "sleep"
            /\ UNCHANGED <<not_done, idx, checked>>
       ELSE /\ checked' = checked \cup {idx}
            /\ not_done' = (not_done \/ ~done(list_of_futures[idx]))
            /\ idx' = idx + 1
            /\ UNCHANGED pc
    /\ UNCHANGED <<list_of_futures, fut, cycles, sleeps, result_calls, raised, exc, retval>>
    /\ UNCHANGED <<cfgVars, errVars>>

\* One iteration of `for r in list_of_futures: if not r.done(): not_done = True; break`.
ForCheck ==
    /\ pc = "for"
    /\ IF idx > Len(list_of_futures)
       THEN /\ pc' = "sleep"
            /\ UNCHANGED <<not_done, idx, checked>>
       ELSE /\ checked' = checked \cup {idx}
            /\ IF ~done(list_of_futures[idx])
               THEN /\ not_done' = TRUE
                    /\ pc' = "sleep"
                    /\ UNCHANGED idx
               ELSE /\ idx' = idx + 1
                    /\ UNCHANGED <<not_done, pc>>
    /\ UNCHANGED <<list_of_futures, fut, cycles, sleeps, result_calls, raised, exc, retval>>
    /\ UNCHANGED <<cfgVars, errVars>>

\* Sleep placed under `if not_done:`.
SleepOnlyWhenPending ==
    /\ pc = "sleep"
    /\ pc' = "while"
    /\ sleeps' = IF not_done THEN Count(sleeps) ELSE sleeps
    /\ UNCHANGED <<list_of_futures, fut, not_done, idx, cycles, checked,
                   result_calls, raised, exc, retval>>
    /\ UNCHANGED <<cfgVars, errVars>>

\* `time.sleep(sleep_interval)`: the last statement of the while body.
Sleep ==
    /\ pc = "sleep"
    /\ pc' = "while"
    /\ sleeps' = Count(sleeps)
    /\ UNCHANGED <<list_of_futures, fut, not_done, idx, cycles, checked,
                   result_calls, raised, exc, retval>>
    /\ UNCHANGED <<cfgVars, errVars>>

\* FetchResult with result() wrapped in a try/except that passes.
FetchSwallowsFailure ==
    /\ pc = "result"
    /\ IF idx > Len(list_of_futures)
       THEN /\ pc' = "returned"
            /\ retval' = None
            /\ UNCHANGED <<idx, result_calls, raised, exc>>
       ELSE /\ done(list_of_futures[idx])
            /\ result_calls' = Append(result_calls, idx)
            /\ idx' = idx + 1
            /\ UNCHANGED <<pc, raised, exc, retval>>
    /\ UNCHANGED <<list_of_futures, fut, not_done, cycles, sleeps, checked>>
    /\ UNCHANGED <<cfgVars, errVars>>

\* FetchResult over reversed(list_of_futures).
FetchBackwards ==
    /\ pc = "result"
    /\ IF idx > Len(list_of_futures)
       THEN /\ pc' = "returned"
            /\ retval' = None
            /\ UNCHANGED <<idx, result_calls, raised, exc>>
       ELSE LET k == Len(list_of_futures) + 1 - idx
            IN  /\ done(list_of_futures[k])
                /\ result_calls' = Append(result_calls, k)
                /\ IF fut[list_of_futures[k]] = "failed"
                   THEN /\ pc' = "raised"
                        /\ raised' = raised + 1
                        /\ exc' = StoredException(list_of_futures[k])
                        /\ UNCHANGED <<idx, retval>>
                   ELSE /\ idx' = idx + 1
                        /\ UNCHANGED <<pc, raised, exc, retval>>
    /\ UNCHANGED <<list_of_futures, fut, not_done, cycles, sleeps, checked>>
    /\ UNCHANGED <<cfgVars, errVars>>

\* One iteration of `for r in list_of_futures: r.result()`, then `return`.
\* result() blocks on a pending future and re-raises a stored exception.
FetchResult ==
    /\ pc = "result"
    /\ IF idx > Len(list_of_futures)
       THEN /\ pc' = "returned"
            /\ retval' = None
            /\ UNCHANGED <<idx, result_calls, raised, exc>>
       ELSE /\ done(list_of_futures[idx])
            /\ result_calls' = Append(result_calls, idx)
            /\ IF fut[list_of_futures[idx]] = "failed"
               THEN /\ pc' = "raised"
                    /\ raised' = raised + 1
                    /\ exc' = StoredException(list_of_futures[idx])
                    /\ UNCHANGED <<idx, retval>>
               ELSE /\ idx' = idx + 1
                    /\ UNCHANGED <<pc, raised, exc, retval>>
    /\ UNCHANGED <<list_of_futures, fut, not_done, cycles, sleeps, checked>>
    /\ UNCHANGED <<cfgVars, errVars>>

\* The steps of the calling thread.
WaitStep == WhileTest \/ ForCheck \/ Sleep \/ FetchResult

NextWait ==
    \/ WhileTest
    \/ ForCheck
    \/ Sleep
    \/ FetchResult
    \/ \E h \in Handles : Complete(h)

SpecWait == InitWait /\ [][NextWait]_vars

\* The calling thread keeps running and every sleep ends; nothing is assumed of
\* the futures.
FairWait == InitWait /\ [][NextWait]_vars /\ WF_vars(WaitStep)

InLoop   == pc \in {"while", "for", "sleep"}
Finished == pc \in {"returned", "raised"}

\* ------------------------------------------------------------------ workflow_config

NumExecutors == 4

\* The defaults of the signature.
DefaultPartition == <<"sequana_cpu", "sequana_cpu", "sequana_cpu", "sequana_cpu_long">>
DefaultNodes     == <<1, 4, 1, 1>>
DefaultCores     == <<PyInt(48), PyInt(48), PyInt(48), PyInt(48)>>
DefaultWalltime  == <<"03:00:00", "04:00:00", "06:00:00", "06:00:00">>
DefaultInterval  == 30

\* The argument lists a call is made with: the defaults, lists with four
\* different entries, and lists of three and of five entries.
PartitionLists ==
    { DefaultPartition,
      <<"cpu_dev", "cpu_small", "cpu", "cpu_long">>,
      <<"cpu_dev", "cpu_small", "cpu">> }

NodeLists ==
    { DefaultNodes,
      <<2, 3, 5, 7>>,
      <<2, 3, 5, 7, 9>> }

\* cores_per_node as ints, as numeric strings (as read from a command line), as
\* floats, and with an entry int() rejects.
CoreLists ==
    { DefaultCores,
      <<PyInt(24), PyInt(12), PyInt(6), PyInt(1)>>,
      <<PyStr("48"), PyStr("24"), PyStr(" 12"), PyStr("6")>>,
      <<PyFloat(48, 0), PyFloat(24, 0), PyFloat(12, 0), PyFloat(6, 0)>>,
      <<PyInt(48), PyFloat(2, 5), PyInt(12), PyInt(6)>>,
      <<PyInt(48), PyInt(24), PyStr("all"), PyInt(6)>> }

WalltimeLists ==
    { DefaultWalltime,
      <<"00:10:00", "00:20:00", "00:30:00", "00:40:00">> }

Intervals == (1..MaxInterval) \cup {DefaultInterval}

Names == {"biocomp"}

NoFile        == [type |-> "missing"]
File(content) == [type |-> "file", content |-> content]

EnvFiles == {NoFile, File(""), File("module load python")}

InitConfig ==
    /\ args \in [name : Names, partition : PartitionLists, nodes : NodeLists,
                 cores_per_node : CoreLists, walltime : WalltimeLists,
                 interval : Intervals, monitor : BOOLEAN]
    /\ env_file \in EnvFiles
    /\ pcC = "start"
    /\ loggers = <<>>
    /\ env_str = ""
    /\ mon_hub = NoValue
    /\ executors = <<>>
    /\ config = NoValue
    /\ errC = NoValue
    /\ IdleWait
    /\ IdleErr

\* parsl.set_stream_logger and parsl.set_file_logger; the logging.info calls
\* change nothing.
SetLoggers ==
    /\ pcC = "start"
    /\ loggers' = << [handler |-> "stream", level |-> "ERROR"],
                     [handler |-> "file", level |-> "DEBUG",
                      filename |-> args.name \o "_script.output"] >>
    /\ pcC' = "open"
    /\ UNCHANGED <<args, env_file, env_str, mon_hub, executors, config, errC>>
    /\ UNCHANGED <<waitVars, errVars>>

\* ReadEnv with the open guarded, env_str keeping its empty default.
ReadEnvKeepsEmptyDefault ==
    /\ pcC = "open"
    /\ env_str' = IF env_file = NoFile THEN "" ELSE env_file.content
    /\ pcC' = "monitoring"
    /\ UNCHANGED <<args, env_file, loggers, mon_hub, executors, config, errC>>
    /\ UNCHANGED <<waitVars, errVars>>

\* `env_str = str()`, then open('parsl.env', 'r') and reader.read(); open raises
\* FileNotFoundError when the file is missing, and nothing catches it.
ReadEnv ==
    /\ pcC = "open"
    /\ IF env_file = NoFile
       THEN /\ pcC' = "raised"
            /\ errC' = [type |-> "FileNotFoundError", filename |-> "parsl.env"]
            /\ UNCHANGED env_str
       ELSE /\ env_str' = env_file.content
            /\ pcC' = "monitoring"
            /\ UNCHANGED errC
    /\ UNCHANGED <<args, env_file, loggers, mon_hub, executors, config>>
    /\ UNCHANGED <<waitVars, errVars>>

\* address_by_interface(ifname): the address of that interface, opaque here.
address_by_interface(ifname) == [type |-> "address", interface |-> ifname]

MonitoringHub ==
    [type |-> "MonitoringHub",
     workflow_name |-> args.name,
     hub_address |-> address_by_interface("ib0"),
     hub_port |-> 60001,
     resource_monitoring_enabled |-> TRUE,
     monitoring_debug |-> FALSE,
     resource_monitoring_interval |-> args.interval]

\* MonitoringOrNone without the `if monitor else None`.
MonitoringAlways == MonitoringHub

\* `mon_hub = MonitoringHub(...) if monitor else None`

MonitoringOrNone == IF args.monitor THEN MonitoringHub ELSE None

BuildMonitoring ==
    /\ pcC = "monitoring"
    /\ mon_hub' = MonitoringOrNone
    /\ pcC' = "executors"
    /\ UNCHANGED <<args, env_file, loggers, env_str, executors, config, errC>>
    /\ UNCHANGED <<waitVars, errVars>>

Labels == <<"single_thread", "raxml", "snaq", "snaq_l">>

CoresPerWorker == <<1, 6, 6, 6>>

PortRanges == << <<50000, 55000>>, <<55000, 60000>>, <<40000, 45000>>, <<45000, 50000>> >>

SrunLauncher(overrides) == [type |-> "SrunLauncher", overrides |-> overrides]

\* SlurmProvider with nodes[0] left in place when the block was copied.
SlurmProviderCopiesFirstNodes(k) ==
    [type |-> "SlurmProvider",
     partition |-> args.partition[k],
     parallelism |-> 1,
     init_blocks |-> 1,
     max_blocks |-> 1,
     nodes_per_block |-> args.nodes[1],
     cmd_timeout |-> 120,
     worker_init |-> env_str,
     move_files |-> FALSE,
     walltime |-> args.walltime[k],
     launcher |-> SrunLauncher("-c " \o format(args.cores_per_node[k]))]

\* The SlurmProvider of executor k (1..4 here, 0..3 in the source).
SlurmProvider(k) ==
    [type |-> "SlurmProvider",
     partition |-> args.partition[k],
     parallelism |-> 1,
     init_blocks |-> 1,
     max_blocks |-> 1,
     nodes_per_block |-> args.nodes[k],
     cmd_timeout |-> 120,
     worker_init |-> env_str,
     move_files |-> FALSE,
     walltime |-> args.walltime[k],
     launcher |-> SrunLauncher("-c " \o format(args.cores_per_node[k]))]

\* Executor k; only the last one passes scheduler_options.
HighThroughputExecutor(k) ==
    [type |-> "HighThroughputExecutor",
     label |-> Labels[k],
     address |-> address_by_interface("ib0"),
     max_workers |-> int(args.cores_per_node[k]),
     cores_per_worker |-> CoresPerWorker[k],
     worker_debug |-> FALSE,
     interchange_port_range |-> PortRanges[k],
     provider |-> IF k = NumExecutors
                  THEN SlurmProvider(k) @@ [scheduler_options |-> ""]
                  ELSE SlurmProvider(k)]

\* What evaluating executor k's arguments raises, in evaluation order:
\* int(cores_per_node[k]) first, then the provider's subscripts.
ExecutorError(k) ==
    IF k > Len(args.cores_per_node) THEN [type |-> "IndexError"]
    ELSE IF ~IntAccepts(args.cores_per_node[k]) THEN [type |-> "ValueError"]
    ELSE IF k > Len(args.partition) \/ k > Len(args.nodes) \/ k > Len(args.walltime)
         THEN [type |-> "IndexError"]
    ELSE None

\* The next element of the `executors=[...]` list.
BuildExecutor ==
    /\ pcC = "executors"
    /\ Len(executors) < NumExecutors
    /\ LET k == Len(executors) + 1
       IN  IF ExecutorError(k) # None
           THEN /\ pcC' = "raised"
                /\ errC' = ExecutorError(k)
                /\ UNCHANGED executors
           ELSE /\ executors' = Append(executors, HighThroughputExecutor(k))
                /\ UNCHANGED <<pcC, errC>>
    /\ UNCHANGED <<args, env_file, loggers, env_str, mon_hub, config>>
    /\ UNCHANGED <<waitVars, errVars>>

\* `return parsl.config.Config(executors=[...], monitoring=mon_hub, strategy=None)`
BuildConfig ==
    /\ pcC = "executors"
    /\ Len(executors) = NumExecutors
    /\ config' = [type |-> "Config", executors |-> executors,
                  monitoring |-> mon_hub, strategy |-> None]
    /\ pcC' = "returned"
    /\ UNCHANGED <<args, env_file, loggers, env_str, mon_hub, executors, errC>>
    /\ UNCHANGED <<waitVars, errVars>>

NextConfig ==
    \/ SetLoggers
    \/ ReadEnv
    \/ BuildMonitoring
    \/ BuildExecutor
    \/ BuildConfig

SpecConfig == InitConfig /\ [][NextConfig]_vars

\* ------------------------------------------------------------------ PhylipMissingData

DefaultMessage == "Unable to find a tar file with the nexus data."

Chars == {"/", "d", " "}

\* A constructor call: PhylipMissingData(input_dir) or
\* PhylipMissingData(input_dir, message).
CtorCalls ==
    {[input_dir |-> d] : d \in StringsUpTo(Chars, MaxStrLen)}
    \cup {[input_dir |-> d, message |-> m] :
             d \in StringsUpTo(Chars, MaxStrLen), m \in StringsUpTo(Chars, MaxStrLen)}

InitErr ==
    /\ ctor \in CtorCalls
    /\ pcE = "new"
    /\ error = NoValue
    /\ text = NoValue
    /\ IdleWait
    /\ IdleConfig

\* __init__(self, input_dir, message=...): the two attributes, and
\* super().__init__(self.message), which sets args.
PhylipMissingData(input_dir, message) ==
    [type |-> "PhylipMissingData",
     input_dir |-> input_dir,
     message |-> message,
     args |-> <<message>>]

Construct ==
    /\ pcE = "new"
    /\ error' = PhylipMissingData(ctor.input_dir,
                                  IF "message" \in DOMAIN ctor THEN ctor.message
                                  ELSE DefaultMessage)
    /\ pcE' = "built"
    /\ UNCHANGED <<ctor, text>>
    /\ UNCHANGED <<waitVars, cfgVars>>

\* The __str__ inherited from Exception: its single argument.
ExceptionStr(self) == self.args[1]

\* __str__(self): f'{self.input_dir} -> {self.message}'

PhylipMissingDataStr(self) == self.input_dir \o " -> " \o self.message

Show ==
    /\ pcE = "built"
    /\ text' = PhylipMissingDataStr(error)
    /\ pcE' = "shown"
    /\ UNCHANGED <<ctor, error>>
    /\ UNCHANGED <<waitVars, cfgVars>>

NextErr ==
    \/ Construct
    \/ Show

SpecErr == InitErr /\ [][NextErr]_vars

\* ------------------------------------------------------------------ claims: wait_for_all

Min(a, b) == IF a <= b THEN a ELSE b

FailedPositions == {k \in 1..Len(list_of_futures) : fut[list_of_futures[k]] = "failed"}

\* C1: wait_for_all never returns early: once the poll loop has been left, and
\* so at the moment wait_for_all returns or raises, done() is true for every
\* future of the collection, whatever the interleaving of completions and polls.
C1_NeverReturnsEarly == (~InLoop) => AllDone

C1_Witness ==
    /\ pc = "returned"
    /\ cycles >= 2
    /\ Len(list_of_futures) >= 2

\* C2: a failure reaches the caller exactly once and only after every future is
\* done: the poll loop raises nothing, the exception raised is the one stored in
\* the first failed future of the collection, and wait_for_all does not return
\* normally when some future of the collection failed.
C2_FailurePropagatedOnce ==
    /\ raised <= 1
    /\ InLoop => (raised = 0 /\ exc = NoValue)
    /\ raised = 1 <=> pc = "raised"
    /\ pc = "raised" =>
          /\ AllDone
          /\ FailedPositions # {}
          /\ \E k \in FailedPositions :
                /\ \A j \in FailedPositions : k <= j
                /\ exc = StoredException(list_of_futures[k])
    /\ pc = "returned" => (FailedPositions = {} /\ exc = NoValue)

C2_Witness ==
    /\ pc = "raised"
    /\ cycles >= 2
    /\ Len(list_of_futures) >= 2
    /\ \E k \in 1..Len(list_of_futures) : fut[list_of_futures[k]] = "ok"

\* C3: wait_for_all has no timeout: while some future is pending it stays in the
\* poll loop, and once every future is done it leaves the loop and finishes
\* (returns, or raises from the result pass).
C3_PollsUntilAllDone ==
    /\ []((~AllDone) => InLoop)
    /\ AllDone ~> Finished

C3_Witness ==
    /\ Finished
    /\ cycles > MaxCycles

\* C4: result() is called only after the poll loop, on the futures in collection
\* order; when none raises it is called exactly once per entry and wait_for_all
\* returns None.
C4_ResultPassInOrder ==
    /\ InLoop => result_calls = <<>>
    /\ \A k \in 1..Len(result_calls) : result_calls[k] = k
    /\ Len(result_calls) <= Len(list_of_futures)
    /\ pc = "returned" => (Len(result_calls) = Len(list_of_futures) /\ retval = None)
    /\ pc # "returned" => retval = NoValue

C4_Witness ==
    /\ pc = "returned"
    /\ Len(result_calls) >= 2
    /\ list_of_futures[1] # list_of_futures[2]

\* The futures whose done() was called in the current cycle.
CheckedFutures == {list_of_futures[k] : k \in checked}

FourElementLists ==
    /\ Len(args.partition) = 4
    /\ Len(args.nodes) = 4
    /\ Len(args.cores_per_node) = 4
    /\ Len(args.walltime) = 4

C6_MonitoringIffFlag ==
    pcC = "returned" =>
        /\ config.monitoring # None <=> args.monitor
        /\ args.monitor =>
              /\ config.monitoring.type = "MonitoringHub"
              /\ config.monitoring.resource_monitoring_interval = args.interval
        /\ (~args.monitor) => config.monitoring = None

C6_Witness ==
    /\ pcC = "returned"
    /\ args.monitor
    /\ args.interval # DefaultInterval
    /\ config.monitoring.resource_monitoring_interval = args.interval

\* C7: with 'parsl.env' missing workflow_config stops at the open with
\* FileNotFoundError, whatever the other arguments: it never gets past the open,
\* and no configuration, executor or monitoring object is ever constructed.
C7_MissingEnvFileRaises ==
    (pcC # "idle" /\ env_file = NoFile) =>
        /\ pcC \in {"start", "open", "raised"}
        /\ pcC = "raised" => errC = [type |-> "FileNotFoundError", filename |-> "parsl.env"]
        /\ config = NoValue
        /\ executors = <<>>
        /\ mon_hub = NoValue

C7_Witness ==
    /\ pcC = "raised"
    /\ env_file = NoFile
    /\ errC.type = "FileNotFoundError"
    /\ args.monitor
    /\ ~IntAccepts(args.cores_per_node[3])

\* ------------------------------------------------------------------ claims: PhylipMissingData

\* C8: the textual form of PhylipMissingData(input_dir, message) is input_dir,
\* then ' -> ', then message, the message being 'Unable to find a tar file with
\* the nexus data.' when the call omits it.
C8_TextualForm ==
    pcE = "shown" =>
        text = ctor.input_dir \o " -> " \o
               (IF "message" \in DOMAIN ctor
                THEN ctor.message
                ELSE "Unable to find a tar file with the nexus data.")

C8_Witness ==
    /\ pcE = "shown"
    /\ "message" \notin DOMAIN ctor
    /\ Len(ctor.input_dir) >= 2
    /\ Len(text) = Len(ctor.input_dir) + 4 + 46

====
